---------------------------- MODULE Spec2Model ----------------------------
(***************************************************************************)
(* A model of maniparse (src/src/manifest.rs): the Version scalar, the     *)
(* untagged Flavours resolver, Manifest::from_str, Manifest::flavors with  *)
(* its matrix expansion helpers one/two/three/four, and                    *)
(* Manifest::exports_for.                                                  *)
(*                                                                         *)
(* Text is modelled as a sequence of one-character strings, so that        *)
(* formatting, scalar classification, the "row." replacement and template  *)
(* rendering are computed character by character.                          *)
(***************************************************************************)
EXTENDS Integers, Sequences, FiniteSets, TLC

VARIABLES doc, manifest, result, previous, ver, shown, reclass

vars == <<doc, manifest, result, previous, ver, shown, reclass>>

\* Option values.
Some(v) == [some |-> TRUE, v |-> v]
None == [some |-> FALSE]

(***************************************************************************)
(* Bounds of the model.                                                    *)
(***************************************************************************)
MaxFlavours == 2      \* declared flavours per document
MaxTextLen == 3       \* length of the texts of String versions
MaxMantissa == 12     \* digits value of the Float versions drawn
MaxScale == 2         \* number of fractional digits of the Float versions
MaxWhole == 12        \* Int versions drawn, besides the largest u16

U16Max == 65535

(***************************************************************************)
(* Text helpers.                                                           *)
(***************************************************************************)
DigitChars == <<"0", "1", "2", "3", "4", "5", "6", "7", "8", "9">>

IsDigit(c) == \E i \in 1..10 : DigitChars[i] = c

DigitVal(c) == (CHOOSE i \in 1..10 : DigitChars[i] = c) - 1

RECURSIVE Pow10(_)
Pow10(e) == IF e = 0 THEN 1 ELSE 10 * Pow10(e - 1)

\* "{}" of an unsigned integer: its decimal digits, no padding.
RECURSIVE NatToText(_)
NatToText(n) ==
    IF n < 10 THEN <<DigitChars[n + 1]>>
    ELSE NatToText(n \div 10) \o <<DigitChars[(n % 10) + 1]>>

\* n written with exactly w digits (the fractional digits of a float).
RECURSIVE PadNat(_, _)
PadNat(n, w) ==
    IF w = 0 THEN <<>>
    ELSE PadNat(n \div 10, w - 1) \o <<DigitChars[(n % 10) + 1]>>

RECURSIVE DigitsVal(_)
DigitsVal(s) ==
    IF s = <<>> THEN 0
    ELSE 10 * DigitsVal(SubSeq(s, 1, Len(s) - 1)) + DigitVal(s[Len(s)])

AllDigits(s) == \A i \in 1..Len(s) : IsDigit(s[i])

RECURSIVE Concat(_)
Concat(ss) == IF ss = <<>> THEN <<>> ELSE Head(ss) \o Concat(Tail(ss))

(***************************************************************************)
(* Version.  String(String) carries a text; Float(f32) is modelled as the  *)
(* decimal m / 10^e in lowest form (no trailing zero in the fraction);     *)
(* Int(u16) is a number 0..U16Max.                                         *)
(***************************************************************************)
VString(s) == [variant |-> "String", s |-> s]

RECURSIVE Normal(_, _)
Normal(m, e) ==
    IF e > 0 /\ m % 10 = 0 THEN Normal(m \div 10, e - 1) ELSE [m |-> m, e |-> e]

VFloat(m, e) == [variant |-> "Float", f |-> Normal(m, e)]

VInt(i) == [variant |-> "Int", i |-> i]

\* impl fmt::Display for Version.  A float prints as the shortest decimal
\* that reads back to it: the whole part, and the fraction only when there
\* is one (7.0 prints as "7").
Display(v) ==
    CASE v.variant = "String" -> v.s
      [] v.variant = "Float" ->
            IF v.f.e = 0 THEN NatToText(v.f.m)
            ELSE NatToText(v.f.m \div Pow10(v.f.e)) \o <<".">>
                 \o PadNat(v.f.m % Pow10(v.f.e), v.f.e)
      [] v.variant = "Int" -> NatToText(v.i)

(***************************************************************************)
(* A scalar of the document: its text, and whether it was quoted.  The     *)
(* document parser resolves a plain scalar to an unsigned integer when it  *)
(* is all digits, to a float when it is digits with one point, and to a    *)
(* string otherwise; a quoted scalar is a string.  (Texts here are over    *)
(* digits, the point and letters: no sign, exponent or leading zero.)      *)
(***************************************************************************)
Points(s) == {i \in 1..Len(s) : s[i] = "."}

IsFloatText(s) ==
    /\ Cardinality(Points(s)) = 1
    /\ Len(s) >= 2
    /\ \A i \in 1..Len(s) : IsDigit(s[i]) \/ s[i] = "."

FloatOfText(s) ==
    LET p == CHOOSE i \in 1..Len(s) : s[i] = "."
        whole == SubSeq(s, 1, p - 1)
        frac == SubSeq(s, p + 1, Len(s))
    IN  Normal(DigitsVal(whole \o frac), Len(frac))

ResolveScalar(sc) ==
    IF sc.quoted THEN [c |-> "str", s |-> sc.t]
    ELSE IF sc.t # <<>> /\ AllDigits(sc.t) THEN [c |-> "u64", n |-> DigitsVal(sc.t)]
    ELSE IF IsFloatText(sc.t) THEN [c |-> "f64", f |-> FloatOfText(sc.t)]
    ELSE [c |-> "str", s |-> sc.t]

\* #[serde(untagged)] enum Version: the variants are tried in declaration
\* order, String, Float, Int, and the first that accepts the content wins.
\* A String accepts text only; an f32 accepts a float and also any integer;
\* a u16 accepts an integer up to U16Max.
AcceptsString(c) == c.c = "str"
AcceptsFloat(c) == c.c \in {"f64", "u64"}
AcceptsInt(c) == c.c = "u64" /\ c.n <= U16Max

DeserializeVersion(c) ==
    IF AcceptsString(c) THEN VString(c.s)
    ELSE IF AcceptsFloat(c) THEN
        (IF c.c = "f64" THEN [variant |-> "Float", f |-> c.f] ELSE VFloat(c.n, 0))
    ELSE IF AcceptsInt(c) THEN VInt(c.n)
    ELSE [variant |-> "none"]

\* The variant a text gets when it is read as a plain scalar.
Classify(t) == DeserializeVersion(ResolveScalar([quoted |-> FALSE, t |-> t]))

(***************************************************************************)
(* The name template.  template.replace("row.", "") removes every          *)
(* occurrence of "row.", left to right.  The template engine then splits   *)
(* the text at "{{" and "}}" into literal text and tags; a "{{" with no    *)
(* closing "}}" is a compile error.  Rendering writes the text, and for a  *)
(* tag the HTML-escaped value bound to its name, or nothing when the name  *)
(* is not bound.  (Templates here use plain {{name}} tags only.)           *)
(***************************************************************************)
Open == <<"{", "{">>
Close == <<"}", "}">>
RowPrefix == <<"r", "o", "w", ".">>

StartsWith(s, p) == Len(s) >= Len(p) /\ SubSeq(s, 1, Len(p)) = p

Drop(s, n) == SubSeq(s, n + 1, Len(s))

RECURSIVE Replace(_, _)
Replace(s, pat) ==
    IF s = <<>> THEN <<>>
    ELSE IF StartsWith(s, pat) THEN Replace(Drop(s, Len(pat)), pat)
    ELSE <<Head(s)>> \o Replace(Tail(s), pat)

StripRow(template) == Replace(template, RowPrefix)

\* The first position from i on at which pat occurs in s, or 0.
RECURSIVE FindFrom(_, _, _)
FindFrom(s, pat, i) ==
    IF i + Len(pat) - 1 > Len(s) THEN 0
    ELSE IF SubSeq(s, i, i + Len(pat) - 1) = pat THEN i
    ELSE FindFrom(s, pat, i + 1)

Find(s, pat) == FindFrom(s, pat, 1)

TextToken(s) == IF s = <<>> THEN <<>> ELSE <<[t |-> "Text", s |-> s]>>

RECURSIVE Compile(_)
Compile(s) ==
    LET o == Find(s, Open)
    IN  IF o = 0 THEN TextToken(s)
        ELSE LET rest == Drop(s, o + 1)
                 c == Find(rest, Close)
             IN  TextToken(SubSeq(s, 1, o - 1)) \o
                 (IF c = 0 THEN <<[t |-> "Unclosed"]>>
                  ELSE <<[t |-> "ETag", name |-> SubSeq(rest, 1, c - 1)]>>
                       \o Compile(Drop(rest, c + 1)))

Compiled(tokens) == \A i \in 1..Len(tokens) : tokens[i].t # "Unclosed"

EscapeChar(c) ==
    CASE c = "&" -> <<"&", "a", "m", "p", ";">>
      [] c = "<" -> <<"&", "l", "t", ";">>
      [] c = ">" -> <<"&", "g", "t", ";">>
      [] OTHER -> <<c>>

Escape(s) == Concat([i \in 1..Len(s) |-> EscapeChar(s[i])])

RenderToken(tok, map) ==
    IF tok.t = "Text" THEN tok.s
    ELSE IF tok.name \in DOMAIN map THEN Escape(map[tok.name])
    ELSE <<>>

Render(tokens, map) == Concat([i \in 1..Len(tokens) |-> RenderToken(tokens[i], map)])

\* MapBuilder::new() and insert_str: a later insert of a key replaces it.
EmptyMap == [k \in {} |-> <<>>]

InsertStr(map, k, v) ==
    [x \in DOMAIN map \cup {k} |-> IF x = k THEN v ELSE map[x]]

(***************************************************************************)
(* Results: Ok(v), Err(e), or a panic of the thread.                       *)
(***************************************************************************)
Ok(v) == [kind |-> "Ok", v |-> v]
Err(e) == [kind |-> "Err", e |-> e]
Panic == [kind |-> "Panic"]

\* iproduct!: the cartesian product of the lists, the last one varying
\* fastest.
RECURSIVE iproduct(_)
iproduct(lists) ==
    IF lists = <<>> THEN << <<>> >>
    ELSE LET rest == iproduct(Tail(lists))
             first == Head(lists)
         IN  Concat([i \in 1..Len(first) |->
                        [j \in 1..Len(rest) |-> <<first[i]>> \o rest[j]]])

\* The loop body shared by one, two, three and four: per combination,
\* compile the stripped template (an error returns at once), render it
\* against the combination's map and push the text.
RenderEach(template, maps) ==
    LET rtemplate == Compile(StripRow(template))
    IN  IF maps = <<>> THEN Ok(<<>>)
        ELSE IF ~Compiled(rtemplate) THEN Err("template")
        ELSE Ok([n \in 1..Len(maps) |-> Render(rtemplate, maps[n])])

one(template, keys, p1) ==
    RenderEach(template,
        [n \in 1..Len(p1) |-> InsertStr(EmptyMap, keys[1], Display(p1[n]))])

two(template, keys, p1, p2) ==
    LET combos == iproduct(<<p1, p2>>)
    IN  RenderEach(template,
            [n \in 1..Len(combos) |->
                InsertStr(InsertStr(EmptyMap,
                    keys[1], Display(combos[n][1])),
                    keys[2], Display(combos[n][2]))])

\* three with the second and third values bound to each other's keys.
threeCrossed(template, keys, p1, p2, p3) ==
    LET combos == iproduct(<<p1, p2, p3>>)
    IN  RenderEach(template,
            [n \in 1..Len(combos) |->
                InsertStr(InsertStr(InsertStr(EmptyMap,
                    keys[1], Display(combos[n][1])),
                    keys[2], Display(combos[n][3])),
                    keys[3], Display(combos[n][2]))])

three(template, keys, p1, p2, p3) ==
    LET combos == iproduct(<<p1, p2, p3>>)
    IN  RenderEach(template,
            [n \in 1..Len(combos) |->
                InsertStr(InsertStr(InsertStr(EmptyMap,
                    keys[1], Display(combos[n][1])),
                    keys[2], Display(combos[n][2])),
                    keys[3], Display(combos[n][3]))])

four(template, keys, p1, p2, p3, p4) ==
    LET combos == iproduct(<<p1, p2, p3, p4>>)
    IN  RenderEach(template,
            [n \in 1..Len(combos) |->
                InsertStr(InsertStr(InsertStr(InsertStr(EmptyMap,
                    keys[1], Display(combos[n][1])),
                    keys[2], Display(combos[n][2])),
                    keys[3], Display(combos[n][3])),
                    keys[4], Display(combos[n][4]))])

\* The match on keys.len().  par has one list per key, so in the arm for
\* four keys par[4] (the fifth slot, par[5] counting from 1) is out of
\* range and the index panics before four is called.
Expand(name, keys, par) ==
    CASE Len(keys) = 1 -> one(name, keys, par[1])
      [] Len(keys) = 2 -> two(name, keys, par[1], par[2])
      [] Len(keys) = 3 -> three(name, keys, par[1], par[2], par[3])
      [] Len(keys) = 4 ->
            IF 5 \in DOMAIN par
            THEN four(name, keys, par[1], par[2], par[3], par[5])
            ELSE Panic
      [] OTHER -> Err("dimensionality")

Sentinel == <<"^">>

\* The loop with the Recipe arm pushing nothing.
RECURSIVE FlavorsLoopSkippingRecipe(_, _)
FlavorsLoopSkippingRecipe(flavs, flavors) ==
    IF flavs = <<>> THEN Ok(flavors)
    ELSE LET fl == Head(flavs)
         IN  IF fl.shape = "Recipe"
             THEN FlavorsLoopSkippingRecipe(Tail(flavs), flavors)
             ELSE IF fl.shape = "Simple"
             THEN FlavorsLoopSkippingRecipe(Tail(flavs), Append(flavors, fl.name))
             ELSE LET keys == [i \in 1..Len(fl.matrix) |-> fl.matrix[i].k]
                      par == [i \in 1..Len(fl.matrix) |-> fl.matrix[i].v]
                      expand == Expand(fl.name, keys, par)
                  IN  IF expand.kind # "Ok" THEN expand
                      ELSE FlavorsLoopSkippingRecipe(Tail(flavs), flavors \o expand.v)

\* The loop over self.flavours; a failed expansion returns at once ("?").
\* A Matrix flavour holds its matrix as the list of (key, values) pairs in
\* the order matrix.iter() yields them.
RECURSIVE FlavorsLoop(_, _)
FlavorsLoop(flavs, flavors) ==
    IF flavs = <<>> THEN Ok(flavors)
    ELSE LET fl == Head(flavs)
         IN  IF fl.shape \in {"Recipe", "Simple"}
             THEN FlavorsLoop(Tail(flavs), Append(flavors, fl.name))
             ELSE LET keys == [i \in 1..Len(fl.matrix) |-> fl.matrix[i].k]
                      par == [i \in 1..Len(fl.matrix) |-> fl.matrix[i].v]
                      expand == Expand(fl.name, keys, par)
                  IN  IF expand.kind # "Ok" THEN expand
                      ELSE FlavorsLoop(Tail(flavs), flavors \o expand.v)

\* flavors() pushing the sentinel for requires alone.
FlavorsRequiresOnly(m) ==
    LET first == IF m.requires THEN <<Sentinel>> ELSE <<>>
    IN  IF m.flavours.some THEN FlavorsLoop(m.flavours.v, first) ELSE Ok(first)

\* Manifest::flavors.
Flavors(m) ==
    LET first == IF m.requires \/ m.recipes THEN <<Sentinel>> ELSE <<>>
    IN  IF m.flavours.some THEN FlavorsLoop(m.flavours.v, first) ELSE Ok(first)

\* exports_for answering None for a category whose list is empty.
ExportsForNonEmpty(m, key) ==
    IF m.exports.some
    THEN IF key \in DOMAIN m.exports.v /\ m.exports.v[key] # <<>>
         THEN Some(m.exports.v[key]) ELSE None
    ELSE None

\* exports_for: Some(names) when the registry is there and holds the key.
ExportsFor(m, key) ==
    IF m.exports.some
    THEN IF key \in DOMAIN m.exports.v THEN Some(m.exports.v[key]) ELSE None
    ELSE None

(***************************************************************************)
(* Documents.  A flavour entry of a document has a name, may have a        *)
(* recipes field, may have a matrix field (keys with their scalars, in     *)
(* document order) and may have a platforms field, which is a list of      *)
(* strings or, malformed, a single scalar.                                 *)
(***************************************************************************)
Plain(t) == [quoted |-> FALSE, t |-> t]
Quoted(t) == [quoted |-> TRUE, t |-> t]

Dim(k, v) == [k |-> k, v |-> v]

Entry(name, recipes, matrix, platforms) ==
    [name |-> name, recipes |-> recipes, matrix |-> matrix, platforms |-> platforms]

\* #[serde(untagged)] enum Flavours: Recipe, Simple and Matrix are tried in
\* that order.  Fields a variant does not declare are ignored, so a variant
\* matches when its required fields are there and the fields it declares
\* have the declared type.  Recipe and Simple declare platforms; Matrix
\* does not.
RecipeMatches(e) == e.recipes /\ e.platforms # "scalar"

SimpleMatches(e) == e.platforms # "scalar"

MatrixMatches(e) == e.matrix.some

\* The orders in which a HashMap built from these entries may yield them.
\* Every order is possible for up to three keys.  With four keys or more the
\* expansion reads only the number of keys, and the orders modelled are the
\* document's and its reverse.
IterOrders(dims) ==
    LET n == Len(dims)
    IN  IF n <= 3
        THEN {[i \in 1..n |-> dims[p[i]]] : p \in Permutations(1..n)}
        ELSE {dims, [i \in 1..n |-> dims[n + 1 - i]]}

DeserializeMatrix(dims) ==
    [i \in 1..Len(dims) |->
        Dim(dims[i].k,
            [j \in 1..Len(dims[i].v) |->
                DeserializeVersion(ResolveScalar(dims[i].v[j]))])]

Flavour(shape, name, matrix) == [shape |-> shape, name |-> name, matrix |-> matrix]

\* The in-memory flavours an entry may deserialize to; none when no variant
\* matches.
DeserializeFlavour(e) ==
    IF RecipeMatches(e) THEN {Flavour("Recipe", e.name, <<>>)}
    ELSE IF SimpleMatches(e) THEN {Flavour("Simple", e.name, <<>>)}
    ELSE IF MatrixMatches(e)
    THEN {Flavour("Matrix", e.name, m) : m \in IterOrders(DeserializeMatrix(e.matrix.v))}
    ELSE {}

RECURSIVE Choices(_)
Choices(sets) ==
    IF sets = <<>> THEN { <<>> }
    ELSE {<<h>> \o t : h \in Head(sets), t \in Choices(Tail(sets))}

NotLoaded == [state |-> "none"]
ParseError == [state |-> "error"]
Parsed(m) == [state |-> "ok", m |-> m]

\* Manifest::from_str: the manifests serde_yaml::from_str may return for a
\* document, or the parse error.
FromStr(d) ==
    LET flavs == IF d.flavours.some
                 THEN {Some(fs) : fs \in Choices([i \in 1..Len(d.flavours.v) |->
                                        DeserializeFlavour(d.flavours.v[i])])}
                 ELSE {None}
    IN  IF flavs = {} THEN {ParseError}
        ELSE {Parsed([requires |-> d.requires, recipes |-> d.recipes,
                      flavours |-> f, exports |-> d.exports]) : f \in flavs}

(***************************************************************************)
(* The documents drawn.                                                    *)
(***************************************************************************)
Ka == <<"a">>
Kb == <<"b">>
Kc == <<"c">>
Kd == <<"d">>
Ke == <<"e">>

Tag(k) == Open \o RowPrefix \o k \o Close
Dash == <<"-">>

X == Plain(<<"x">>)
Y == Plain(<<"y">>)

Matrix0 == <<>>
Matrix1 == <<Dim(Ka, <<X, Plain(<<"7", ".", "0">>), Quoted(<<"<">>)>>)>>
Matrix2 == <<Dim(Ka, <<X, Y>>), Dim(Kb, <<Plain(<<"7">>), Plain(<<"1", ".", "5">>)>>)>>
Matrix3 == <<Dim(Ka, <<X, Y, Plain(<<"z">>)>>),
             Dim(Kb, <<Plain(<<"1">>), Plain(<<"2">>)>>),
             Dim(Kc, <<Plain(<<"p">>), Quoted(<<"7">>)>>)>>
Matrix4 == <<Dim(Ka, <<X>>), Dim(Kb, <<X>>), Dim(Kc, <<X, Y>>), Dim(Kd, <<X>>)>>
Matrix5 == <<Dim(Ka, <<X>>), Dim(Kb, <<X>>), Dim(Kc, <<X>>), Dim(Kd, <<X>>),
             Dim(Ke, <<X>>)>>

Template1 == <<"m">> \o Tag(Ka)
Template2 == Tag(Ka) \o Dash \o Tag(Kb)
Template3 == Tag(Ka) \o Dash \o Tag(Kb) \o Dash \o Tag(Kc)
TemplateUnbound == Tag(Ka) \o Dash \o Tag(<<"z">>)
TemplateUnclosed == Open \o RowPrefix \o Ka

\* Entries with a matrix of two keys or more and a malformed platforms field.
WideEntries ==
    {Entry(Template2, FALSE, Some(Matrix2), "scalar"),
     Entry(Template3, FALSE, Some(Matrix3), "scalar"),
     Entry(Template3, FALSE, Some(Matrix4), "scalar"),
     Entry(Template3, FALSE, Some(Matrix5), "scalar")}

NarrowEntries ==
    {Entry(<<"s">>, FALSE, None, "absent"),
     Entry(Sentinel, FALSE, None, "list"),
     Entry(<<"s">>, FALSE, None, "scalar"),
     Entry(Template1, TRUE, Some(Matrix1), "list"),
     Entry(Template3, FALSE, Some(Matrix3), "absent"),
     Entry(<<"m">>, FALSE, Some(Matrix0), "scalar"),
     Entry(Template1, FALSE, Some(Matrix1), "scalar"),
     Entry(TemplateUnbound, FALSE, Some(Matrix1), "scalar"),
     Entry(TemplateUnclosed, FALSE, Some(Matrix1), "scalar")}

FlavourEntries == WideEntries \cup NarrowEntries

\* The lists of at most MaxFlavours entries, at most one of them wide.
FlavourLists ==
    {fs \in UNION {[1..n -> FlavourEntries] : n \in 0..MaxFlavours} :
        Cardinality({i \in DOMAIN fs : fs[i] \in WideEntries}) <= 1}

Documents ==
    [requires : BOOLEAN, recipes : BOOLEAN,
     flavours : {None} \cup {Some(fs) : fs \in FlavourLists},
     exports : {None}]

Categories == {"tools", "libs"}

ExportsOptions ==
    {None,
     Some(<<>>),
     Some([c \in {"tools"} |-> <<>>]),
     Some([c \in {"libs"} |-> <<"l1">>]),
     Some([c \in Categories |-> IF c = "tools" THEN <<"t2", "t1">> ELSE <<"l1">>])}

Keys == Categories \cup {"missing"}

ExportsDocuments ==
    [requires : BOOLEAN, recipes : BOOLEAN,
     flavours : {None, Some(<<>>), Some(<<Entry(<<"s">>, FALSE, None, "absent")>>),
                 Some(<<Entry(<<"s">>, FALSE, None, "scalar")>>)},
     exports : ExportsOptions]

(***************************************************************************)
(* The Version values drawn.                                               *)
(***************************************************************************)
TextChars == {"7", "1", ".", "v"}

Texts == UNION {[1..n -> TextChars] : n \in 1..MaxTextLen}

Versions ==
    {VString(t) : t \in Texts}
    \cup {VFloat(m, e) : m \in 0..MaxMantissa, e \in 0..MaxScale}
    \cup {VInt(i) : i \in 0..MaxWhole} \cup {VInt(U16Max)}

(***************************************************************************)
(* The program: a document is parsed and flavors() is called on the        *)
(* manifest; the document may then be parsed again, by a later run.        *)
(* previous holds what flavors() returned in the run before.               *)
(***************************************************************************)
NoResult == [op |-> "none"]

Init ==
    /\ doc \in Documents
    /\ manifest = NotLoaded
    /\ result = NoResult
    /\ previous = None
    /\ ver = VInt(0)
    /\ shown = None
    /\ reclass = None

Parse ==
    /\ manifest.state = "none" \/ result.op = "flavors"
    /\ manifest' \in FromStr(doc)
    /\ previous' = IF result.op = "flavors" THEN Some(result.r) ELSE previous
    /\ result' = NoResult
    /\ UNCHANGED <<doc, ver, shown, reclass>>

CallFlavors ==
    /\ manifest.state = "ok"
    /\ result.op = "none"
    /\ result' = [op |-> "flavors", r |-> Flavors(manifest.m)]
    /\ UNCHANGED <<doc, manifest, previous, ver, shown, reclass>>

Next == Parse \/ CallFlavors

Spec == Init /\ [][Next]_vars

(***************************************************************************)
(* The exports registry: a document is parsed and exports_for() is called. *)
(***************************************************************************)
ExportsInit ==
    /\ doc \in ExportsDocuments
    /\ manifest = NotLoaded
    /\ result = NoResult
    /\ previous = None
    /\ ver = VInt(0)
    /\ shown = None
    /\ reclass = None

CallExportsFor(key) ==
    /\ manifest.state = "ok"
    /\ result.op = "none"
    /\ result' = [op |-> "exports_for", key |-> key, r |-> ExportsFor(manifest.m, key)]
    /\ UNCHANGED <<doc, manifest, previous, ver, shown, reclass>>

ExportsNext == Parse \/ \E key \in Keys : CallExportsFor(key)

ExportsSpec == ExportsInit /\ [][ExportsNext]_vars

(***************************************************************************)
(* Version alone: a value is displayed, and the text is classified.        *)
(***************************************************************************)
VersionInit ==
    /\ ver \in Versions
    /\ shown = None
    /\ reclass = None
    /\ doc = [requires |-> FALSE, recipes |-> FALSE, flavours |-> None, exports |-> None]
    /\ manifest = NotLoaded
    /\ result = NoResult
    /\ previous = None

Show ==
    /\ ~shown.some
    /\ shown' = Some(Display(ver))
    /\ UNCHANGED <<doc, manifest, result, previous, ver, reclass>>

Reclassify ==
    /\ shown.some
    /\ ~reclass.some
    /\ reclass' = Some(Classify(shown.v))
    /\ UNCHANGED <<doc, manifest, result, previous, ver, shown>>

VersionNext == Show \/ Reclassify

VersionSpec == VersionInit /\ [][VersionNext]_vars

(***************************************************************************)
(* What the properties below read of a state.                              *)
(***************************************************************************)
FlavorsDone == result.op = "flavors"

FlavorsOk == FlavorsDone /\ result.r.kind = "Ok"

TopLevel == manifest.m.requires \/ manifest.m.recipes

Declared == IF manifest.m.flavours.some THEN manifest.m.flavours.v ELSE <<>>

RECURSIVE ProductLen(_)
ProductLen(matrix) ==
    IF matrix = <<>> THEN 1 ELSE Len(Head(matrix).v) * ProductLen(Tail(matrix))

\* The number of identifiers a flavour contributes.
BlockLen(fl) == IF fl.shape = "Matrix" THEN ProductLen(fl.matrix) ELSE 1

RECURSIVE SumBlocks(_)
SumBlocks(flavs) ==
    IF flavs = <<>> THEN 0 ELSE BlockLen(Head(flavs)) + SumBlocks(Tail(flavs))

\* How many identifiers precede the block of the i-th declared flavour.
Offset(i) == (IF TopLevel THEN 1 ELSE 0) + SumBlocks(SubSeq(Declared, 1, i - 1))

Block(i) == SubSeq(result.r.v, Offset(i) + 1, Offset(i) + BlockLen(Declared[i]))

MatrixKeys(fl) == [d \in 1..Len(fl.matrix) |-> fl.matrix[d].k]
MatrixLists(fl) == [d \in 1..Len(fl.matrix) |-> fl.matrix[d].v]

\* The identifiers a declared flavour emits by itself.
Emits(fl) ==
    IF fl.shape = "Matrix"
    THEN LET e == Expand(fl.name, MatrixKeys(fl), MatrixLists(fl))
         IN  IF e.kind = "Ok" THEN {e.v[n] : n \in 1..Len(e.v)} ELSE {}
    ELSE {fl.name}

NoFlavourEmitsSentinel == \A i \in 1..Len(Declared) : Sentinel \notin Emits(Declared[i])

\* The names of the tags of a template, once "row." is stripped.
TagNames(template) ==
    LET tokens == Compile(StripRow(template))
    IN  {tokens[i].name : i \in {j \in 1..Len(tokens) : tokens[j].t = "ETag"}}

(***************************************************************************)
(* C1, as claimed: the sequence flavors() returns begins with "^" if and   *)
(* only if the manifest declares requires or recipes, and "^" appears      *)
(* nowhere after position 0; with neither requires, recipes nor flavours   *)
(* the sequence is empty, and with requires and no flavours it is ["^"].   *)
(***************************************************************************)
C1_SentinelAsClaimed ==
    FlavorsOk =>
        LET out == result.r.v
        IN  /\ (out # <<>> /\ out[1] = Sentinel) <=> TopLevel
            /\ \A i \in 2..Len(out) : out[i] # Sentinel
            /\ (~TopLevel /\ Declared = <<>>) => out = <<>>
            /\ (manifest.m.requires /\ Declared = <<>>) => out = <<Sentinel>>

(***************************************************************************)
(* C1, amended: for a manifest none of whose declared flavours itself      *)
(* emits the identifier "^", the sequence flavors() returns begins with    *)
(* "^" if and only if the manifest declares requires or recipes, and "^"   *)
(* appears nowhere after position 0; with neither requires, recipes nor    *)
(* flavours the sequence is empty, and with requires and no flavours it    *)
(* is ["^"].                                                               *)
(***************************************************************************)
C1_Sentinel ==
    (FlavorsOk /\ NoFlavourEmitsSentinel) =>
        LET out == result.r.v
        IN  /\ (out # <<>> /\ out[1] = Sentinel) <=> TopLevel
            /\ \A i \in 2..Len(out) : out[i] # Sentinel
            /\ (~TopLevel /\ Declared = <<>>) => out = <<>>
            /\ (manifest.m.requires /\ Declared = <<>>) => out = <<Sentinel>>

C1_Witness ==
    /\ FlavorsOk
    /\ NoFlavourEmitsSentinel
    /\ ~manifest.m.requires /\ manifest.m.recipes
    /\ Len(Declared) = 2
    /\ Len(result.r.v) >= 4
    /\ result.r.v[1] = Sentinel

(***************************************************************************)
(* C2: when flavors() succeeds, its output after the optional sentinel is  *)
(* one block per declared flavour, in declaration order and with nothing   *)
(* between, before or after the blocks: the name, verbatim, for a Simple   *)
(* or Recipe flavour, and the identifiers of its expansion for a Matrix    *)
(* flavour.                                                                *)
(***************************************************************************)
C2_Blocks ==
    FlavorsOk =>
        /\ Len(result.r.v) = Offset(Len(Declared) + 1)
        /\ \A i \in 1..Len(Declared) :
              LET fl == Declared[i]
              IN  IF fl.shape = "Matrix"
                  THEN Block(i) = Expand(fl.name, MatrixKeys(fl), MatrixLists(fl)).v
                  ELSE Block(i) = <<fl.name>>

C2_Witness ==
    /\ FlavorsOk
    /\ TopLevel
    /\ Len(Declared) = 2
    /\ Declared[1].shape = "Matrix" /\ BlockLen(Declared[1]) = 12
    /\ Declared[2].shape = "Recipe"
    /\ result.r.v[14] = Declared[2].name

(***************************************************************************)
(* C3, as claimed: when every Matrix flavour of the manifest has 1, 2, 3   *)
(* or 4 dimension keys (and a template that compiles), flavors() succeeds  *)
(* and returns, for each, as many identifiers as the product of the        *)
(* lengths of its dimension lists.                                         *)
(***************************************************************************)
C3_UpToFourDimensions ==
    (/\ FlavorsDone
     /\ \A i \in 1..Len(Declared) :
           Declared[i].shape = "Matrix" =>
              /\ Len(Declared[i].matrix) \in 1..4
              /\ Compiled(Compile(StripRow(Declared[i].name))))
    => /\ result.r.kind = "Ok"
       /\ Len(result.r.v) = Offset(Len(Declared) + 1)

(***************************************************************************)
(* C4, as claimed: when some declared Matrix flavour has no dimension key  *)
(* or five or more, flavors() returns an error value.                      *)
(***************************************************************************)
C4_UnsupportedIsError ==
    (/\ FlavorsDone
     /\ \E i \in 1..Len(Declared) :
           Declared[i].shape = "Matrix" /\ Len(Declared[i].matrix) \notin 1..4)
    => result.r.kind = "Err"

(***************************************************************************)
(* C5, as claimed: an entry of a parsed document with a name and a matrix  *)
(* and no recipes is resolved to the Matrix shape, and alone in its        *)
(* document, with one to three dimensions, it yields one identifier per    *)
(* combination of its dimension values.                                    *)
(***************************************************************************)
C5_MatrixEntryIsMatrix ==
    (manifest.state = "ok" /\ doc.flavours.some) =>
        /\ \A i \in 1..Len(doc.flavours.v) :
              (doc.flavours.v[i].matrix.some /\ ~doc.flavours.v[i].recipes)
                  => Declared[i].shape = "Matrix"
        /\ (/\ FlavorsOk
            /\ Len(doc.flavours.v) = 1
            /\ doc.flavours.v[1].matrix.some /\ ~doc.flavours.v[1].recipes
            /\ Len(doc.flavours.v[1].matrix.v) \in 1..3)
           => Len(result.r.v) = (IF TopLevel THEN 1 ELSE 0)
                                + ProductLen(doc.flavours.v[1].matrix.v)

(***************************************************************************)
(* C6, as claimed: when a declared Matrix flavour of one to three          *)
(* dimensions has a template with a placeholder that is none of its        *)
(* dimension keys, and at least one combination, flavors() does not        *)
(* succeed.                                                                *)
(***************************************************************************)
C6_UnboundPlaceholderFails ==
    (/\ FlavorsDone
     /\ \E i \in 1..Len(Declared) :
           /\ Declared[i].shape = "Matrix"
           /\ Len(Declared[i].matrix) \in 1..3
           /\ ProductLen(Declared[i].matrix) > 0
           /\ \E name \in TagNames(Declared[i].name) :
                 \A d \in 1..Len(Declared[i].matrix) : Declared[i].matrix[d].k # name)
    => result.r.kind # "Ok"

(***************************************************************************)
(* C7, as claimed: two parse-then-flavors() runs on the same document      *)
(* return the same result.                                                 *)
(***************************************************************************)
C7_Reproducible ==
    (FlavorsDone /\ previous.some) => result.r = previous.v

(***************************************************************************)
(* C8: exports_for(category) returns a present result if and only if the   *)
(* document declares an exports registry that holds the category, and the  *)
(* result is then the category's declared list, in order; so a category    *)
(* declared with an empty list yields a present, empty sequence.           *)
(***************************************************************************)
C8_ExportsFor ==
    result.op = "exports_for" =>
        /\ result.r.some <=>
              (doc.exports.some /\ result.key \in DOMAIN doc.exports.v)
        /\ result.r.some => result.r.v = doc.exports.v[result.key]

C8_Witness ==
    /\ result.op = "exports_for"
    /\ result.key = "tools"
    /\ doc.exports.some
    /\ "tools" \in DOMAIN doc.exports.v
    /\ doc.exports.v["tools"] = <<>>
    /\ result.r = Some(<<>>)

(***************************************************************************)
(* C9, as claimed: classifying the Display text of a Version yields the    *)
(* same Version, of the same variant.                                      *)
(***************************************************************************)
C9_DisplayRoundTrip ==
    reclass.some => reclass.v = ver

(***************************************************************************)
(* C10: for a Matrix flavour of one to three dimensions, the identifier    *)
(* at position p of its block is the template, "row." stripped, rendered   *)
(* with each key bound to the Display text of the value that the p-th      *)
(* tuple of the row-major product (last dimension fastest) takes from that *)
(* key's own list.                                                         *)
(***************************************************************************)
Stride(matrix, d) == ProductLen(SubSeq(matrix, d + 1, Len(matrix)))

TupleIndex(matrix, d, p) == ((p \div Stride(matrix, d)) % Len(matrix[d].v)) + 1

Binding(matrix, p) ==
    [k \in {matrix[d].k : d \in 1..Len(matrix)} |->
        LET d == CHOOSE e \in 1..Len(matrix) : matrix[e].k = k
        IN  Display(matrix[d].v[TupleIndex(matrix, d, p)])]

C10_RowMajorBinding ==
    FlavorsOk =>
        \A i \in 1..Len(Declared) :
            (Declared[i].shape = "Matrix" /\ Len(Declared[i].matrix) \in 1..3) =>
                \A p \in 0..(BlockLen(Declared[i]) - 1) :
                    Block(i)[p + 1] =
                        Render(Compile(StripRow(Declared[i].name)),
                               Binding(Declared[i].matrix, p))

C10_Witness ==
    /\ FlavorsOk
    /\ Len(Declared) = 1
    /\ Declared[1].shape = "Matrix"
    /\ Len(Declared[1].matrix) = 3
    /\ Declared[1].matrix[1].k = Kc
    /\ Len(result.r.v) = 12
    /\ result.r.v[2] = <<"x", "-", "2", "-", "p">>

=============================================================================
